---- MODULE Spec2Model ----
(***************************************************************************)
(* Model of the IBAN generation engine (src/src/utils/ibanGenerator.ts).   *)
(*                                                                         *)
(* A JavaScript string is a sequence of one-character strings, so that     *)
(* trim, toUpperCase, charCodeAt, substring, startsWith, padStart and the  *)
(* template literals are computed character by character.                  *)
(*                                                                         *)
(* Three specifications share the module:                                  *)
(*   Spec        one generateIBAN call, step by step, fed by the entropy   *)
(*               source one getRandomValues read at a time;                *)
(*   SpecRandom  one getSecureRandomInt(min, max) call over the whole raw  *)
(*               value space of its byte width;                            *)
(*   SpecProbe   calculateCheckDigits and validateGeneratedIBAN applied to *)
(*               probe inputs.                                             *)
(***************************************************************************)
EXTENDS Integers, Sequences, FiniteSets, TLC

VARIABLES call, twin, rnd, probe, popup

vars == <<call, twin, rnd, probe, popup>>

(***************************************************************************)
(* Characters and strings                                                  *)
(***************************************************************************)
DigitChars == <<"0", "1", "2", "3", "4", "5", "6", "7", "8", "9">>

UpperChars == <<"A", "B", "C", "D", "E", "F", "G", "H", "I", "J", "K", "L", "M",
                "N", "O", "P", "Q", "R", "S", "T", "U", "V", "W", "X", "Y", "Z">>

LowerChars == <<"a", "b", "c", "d", "e", "f", "g", "h", "i", "j", "k", "l", "m",
                "n", "o", "p", "q", "r", "s", "t", "u", "v", "w", "x", "y", "z">>

\* Characters String.prototype.trim removes (the ones the model's inputs use).
WhiteSpace == {" ", "\t", "\n"}

Range(s) == {s[i] : i \in 1..Len(s)}

IndexOf(ch, s) == CHOOSE i \in 1..Len(s) : s[i] = ch

DigitSet == Range(DigitChars)

UpperSet == Range(UpperChars)

LowerSet == Range(LowerChars)

\* The characters of the model.
Chars == DigitSet \cup UpperSet \cup LowerSet \cup WhiteSpace \cup {"-", "_", "?"}

\* The UTF-16 code unit of each character.
CharCode ==
    [ch \in Chars |->
        IF ch \in DigitSet THEN 47 + IndexOf(ch, DigitChars)
        ELSE IF ch \in UpperSet THEN 64 + IndexOf(ch, UpperChars)
        ELSE IF ch \in LowerSet THEN 96 + IndexOf(ch, LowerChars)
        ELSE IF ch = " " THEN 32
        ELSE IF ch = "\t" THEN 9
        ELSE IF ch = "\n" THEN 10
        ELSE IF ch = "-" THEN 45
        ELSE IF ch = "_" THEN 95
        ELSE 63]

\* The upper-case and lower-case form of each character.
UpperCase ==
    [ch \in Chars |->
        IF ch \in LowerSet THEN UpperChars[IndexOf(ch, LowerChars)] ELSE ch]

LowerCase ==
    [ch \in Chars |->
        IF ch \in UpperSet THEN LowerChars[IndexOf(ch, UpperChars)] ELSE ch]

IsDigitChar(ch) == ch \in DigitSet

\* String.prototype.charCodeAt(0)
charCodeAt(ch) == CharCode[ch]

toUpperCaseChar(ch) == UpperCase[ch]

toLowerCaseChar(ch) == LowerCase[ch]

\* String.prototype.toUpperCase
toUpperCase(s) == [i \in 1..Len(s) |-> toUpperCaseChar(s[i])]

toLowerCase(s) == [i \in 1..Len(s) |-> toLowerCaseChar(s[i])]

RECURSIVE trimStart(_)
trimStart(s) ==
    IF s = <<>> THEN <<>>
    ELSE IF Head(s) \in WhiteSpace THEN trimStart(Tail(s))
    ELSE s

RECURSIVE trimEnd(_)
trimEnd(s) ==
    IF s = <<>> THEN <<>>
    ELSE IF s[Len(s)] \in WhiteSpace THEN trimEnd(SubSeq(s, 1, Len(s) - 1))
    ELSE s

\* String.prototype.trim
trim(s) == trimEnd(trimStart(s))

\* String.prototype.substring(from, to), 0-based, end exclusive.
substring(s, from, to) ==
    LET lo == IF from > Len(s) THEN Len(s) ELSE from
        hi == IF to > Len(s) THEN Len(s) ELSE to
    IN  SubSeq(s, lo + 1, hi)

\* String.prototype.startsWith
startsWith(s, prefix) ==
    /\ Len(prefix) <= Len(s)
    /\ SubSeq(s, 1, Len(prefix)) = prefix

RECURSIVE padStart(_, _, _)
\* String.prototype.padStart(width, fill) with a one-character fill.
padStart(s, width, fill) ==
    IF Len(s) >= width THEN s ELSE padStart(<<fill>> \o s, width, fill)

RECURSIVE numberToString(_)
\* Number.prototype.toString() of an integer.
numberToString(n) ==
    IF n < 0 THEN <<"-">> \o numberToString(0 - n)
    ELSE IF n < 10 THEN <<DigitChars[n + 1]>>
    ELSE numberToString(n \div 10) \o <<DigitChars[(n % 10) + 1]>>

(***************************************************************************)
(* Country registry                                                        *)
(***************************************************************************)
countries ==
       (<<"N", "L">> :> [name |-> "Netherlands", length |-> 18, format |-> "NL2!n4!a10!n",
        bankCodeLength |-> 4, accountNumberLength |-> 10,
        sampleBankCodes |-> <<<<"A", "B", "N", "A">>,
            <<"I", "N", "G", "B">>,
            <<"R", "A", "B", "O">>,
            <<"T", "R", "I", "O">>>>])
    @@ (<<"D", "E">> :> [name |-> "Germany", length |-> 22, format |-> "DE2!n8!n10!n",
        bankCodeLength |-> 8, accountNumberLength |-> 10,
        sampleBankCodes |-> <<<<"1", "0", "0", "1", "0", "0", "1", "0">>,
            <<"2", "0", "0", "7", "0", "0", "2", "4">>,
            <<"3", "7", "0", "4", "0", "0", "4", "4">>,
            <<"5", "0", "0", "1", "0", "5", "1", "7">>>>])
    @@ (<<"F", "R">> :> [name |-> "France", length |-> 27, format |-> "FR2!n5!n5!n11!c2!n",
        bankCodeLength |-> 10, accountNumberLength |-> 13,
        sampleBankCodes |-> <<<<"2", "0", "0", "4", "1", "0", "0", "0", "0", "5">>,
            <<"3", "0", "0", "0", "2", "0", "0", "0", "0", "9">>,
            <<"1", "0", "2", "7", "8", "0", "0", "0", "0", "2">>,
            <<"2", "0", "0", "4", "1", "0", "0", "0", "0", "5">>>>])
    @@ (<<"G", "B">> :> [name |-> "United Kingdom", length |-> 22, format |-> "GB2!n4!a6!n8!n",
        bankCodeLength |-> 10, accountNumberLength |-> 8,
        sampleBankCodes |-> <<<<"A", "B", "B", "Y", "0", "6", "0", "0", "0", "1">>,
            <<"B", "A", "R", "C", "2", "0", "0", "0", "0", "0">>,
            <<"H", "B", "U", "K", "4", "0", "0", "0", "0", "3">>,
            <<"L", "O", "Y", "D", "3", "0", "9", "6", "3", "4">>>>])
    @@ (<<"E", "S">> :> [name |-> "Spain", length |-> 24, format |-> "ES2!n4!n4!n1!n1!n10!n",
        bankCodeLength |-> 8, accountNumberLength |-> 12,
        sampleBankCodes |-> <<<<"2", "1", "0", "0", "0", "4", "1", "8">>,
            <<"0", "0", "7", "2", "0", "3", "0", "1">>,
            <<"0", "1", "8", "2", "0", "2", "0", "0">>,
            <<"2", "1", "0", "0", "0", "0", "0", "1">>>>])
    @@ (<<"I", "T">> :> [name |-> "Italy", length |-> 27, format |-> "IT2!n1!a5!n5!n12!c",
        bankCodeLength |-> 11, accountNumberLength |-> 12,
        sampleBankCodes |-> <<<<"X", "0", "5", "4", "2", "8", "1", "1", "1", "0", "1">>,
            <<"A", "0", "3", "0", "6", "9", "0", "1", "6", "9", "1">>,
            <<"U", "0", "3", "0", "1", "5", "0", "3", "2", "0", "0">>,
            <<"C", "0", "3", "0", "1", "5", "0", "3", "4", "0", "0">>>>])
    @@ (<<"B", "E">> :> [name |-> "Belgium", length |-> 16, format |-> "BE2!n3!n7!n2!n",
        bankCodeLength |-> 3, accountNumberLength |-> 9,
        sampleBankCodes |-> <<<<"5", "3", "9">>,
            <<"0", "9", "6">>,
            <<"0", "0", "1">>,
            <<"0", "6", "8">>>>])
    @@ (<<"C", "H">> :> [name |-> "Switzerland", length |-> 21, format |-> "CH2!n5!n12!c",
        bankCodeLength |-> 5, accountNumberLength |-> 12,
        sampleBankCodes |-> <<<<"0", "0", "7", "6", "2">>,
            <<"0", "8", "3", "9", "0">>,
            <<"0", "0", "2", "3", "0">>,
            <<"0", "0", "2", "5", "4">>>>])
    @@ (<<"A", "T">> :> [name |-> "Austria", length |-> 20, format |-> "AT2!n5!n11!n",
        bankCodeLength |-> 5, accountNumberLength |-> 11,
        sampleBankCodes |-> <<<<"1", "9", "0", "4", "3">>,
            <<"3", "2", "0", "0", "0">>,
            <<"2", "0", "1", "1", "1">>,
            <<"1", "4", "0", "0", "0">>>>])
    @@ (<<"D", "K">> :> [name |-> "Denmark", length |-> 18, format |-> "DK2!n4!n9!n1!n",
        bankCodeLength |-> 4, accountNumberLength |-> 10,
        sampleBankCodes |-> <<<<"0", "0", "4", "0">>,
            <<"5", "3", "0", "1">>,
            <<"9", "5", "7", "0">>,
            <<"7", "3", "1", "1">>>>])

\* Object.keys(countries): the keys in insertion order.
ObjectKeys ==
    << <<"N", "L">>, <<"D", "E">>, <<"F", "R">>, <<"G", "B">>, <<"E", "S">>,
       <<"I", "T">>, <<"B", "E">>, <<"C", "H">>, <<"A", "T">>, <<"D", "K">> >>

\* countryCode in countries
isValidCountryCode(countryCode) == countryCode \in DOMAIN countries

(***************************************************************************)
(* Values and errors                                                       *)
(***************************************************************************)
\* A JavaScript value handed to generateIBAN: a string, or a value that is
\* not a string (undefined, a number).
JSString(chars) == [type |-> "string", chars |-> chars]

JSUndefined == [type |-> "undefined", chars |-> <<>>]

JSNumber == [type |-> "number", chars |-> <<>>]

\* A template literal: its fixed text, the interpolated country code, the
\* interpolated list of codes, and the message of the error it wraps.
Message(template, code, codes, inner) ==
    [template |-> template, code |-> code, codes |-> codes, inner |-> inner]

NoError == [name |-> "none", message |-> Message("", <<>>, <<>>, ""),
            countryCode |-> <<>>, raisedBy |-> "none"]

\* new IBANGenerationError(message, countryCode?): countryCode is <<>> when
\* the argument is omitted and <<code>> otherwise.
IBANGenerationError(message, countryCode, raisedBy) ==
    [name |-> "IBANGenerationError", message |-> message,
     countryCode |-> countryCode, raisedBy |-> raisedBy]

\* An error that is not an IBANGenerationError (TypeError, DOMException...).
ForeignError(name, text, raisedBy) ==
    [name |-> name, message |-> Message(text, <<>>, <<>>, ""),
     countryCode |-> <<>>, raisedBy |-> raisedBy]

\* validateCountryCode that accepts any code with a supported code as prefix.
validateCountryCodePrefix(countryCode) ==
    IF countryCode = <<>>
    THEN IBANGenerationError(Message("Country code is required", <<>>, <<>>, ""),
                             <<>>, "validateCountryCode")
    ELSE IF ~isValidCountryCode(substring(toUpperCase(countryCode), 0, 2))
    THEN IBANGenerationError(
             Message("Country code '${countryCode}' is not supported. Supported codes: ${Object.keys(countries).join(', ')}",
                     countryCode, ObjectKeys, ""),
             <<countryCode>>, "validateCountryCode")
    ELSE NoError

\* validateCountryCode whose message names the code and not the list.
validateCountryCodeNoList(countryCode) ==
    IF countryCode = <<>>
    THEN IBANGenerationError(Message("Country code is required", <<>>, <<>>, ""),
                             <<>>, "validateCountryCode")
    ELSE IF ~isValidCountryCode(toUpperCase(countryCode))
    THEN IBANGenerationError(
             Message("Country code '${countryCode}' is not supported",
                     countryCode, <<>>, ""),
             <<countryCode>>, "validateCountryCode")
    ELSE NoError

\* validateCountryCode(countryCode): NoError when it returns, the error it
\* throws otherwise. Its only caller passes the result of trim(), a string:
\* !countryCode is the test for the empty string, and the typeof test of
\* line 135 is never true.
validateCountryCode(countryCode) ==
    IF countryCode = <<>>
    THEN IBANGenerationError(Message("Country code is required", <<>>, <<>>, ""),
                             <<>>, "validateCountryCode")
    ELSE IF ~isValidCountryCode(toUpperCase(countryCode))
    THEN IBANGenerationError(
             Message("Country code '${countryCode}' is not supported. Supported codes: ${Object.keys(countries).join(', ')}",
                     countryCode, ObjectKeys, ""),
             <<countryCode>>, "validateCountryCode")
    ELSE NoError

(***************************************************************************)
(* Secure random primitives                                                *)
(***************************************************************************)
\* The number of values of one byte of a Uint8Array.
ByteValues == 256

RECURSIVE Power(_, _)
\* base ** exp
Power(base, exp) == IF exp = 0 THEN 1 ELSE base * Power(base, exp - 1)

RECURSIVE FloorLog256From(_, _)
FloorLog256From(range, b) ==
    IF Power(ByteValues, b + 1) > range THEN b ELSE FloorLog256From(range, b + 1)

\* bytesNeeded rounded down: Math.floor(Math.log2(range) / 8).
bytesNeededFloor(range) == FloorLog256From(range, 0)

RECURSIVE CeilLog256From(_, _)
CeilLog256From(range, b) ==
    IF Power(ByteValues, b) >= range THEN b ELSE CeilLog256From(range, b + 1)

\* Math.ceil(Math.log2(range) / 8): the least b with 256 ** b >= range.
bytesNeeded(range) == CeilLog256From(range, 0)

\* maxValidValue without the rounding down to a multiple of range: nothing
\* is rejected.
maxValidValueNoRejection(range) == Power(ByteValues, bytesNeeded(range)) - 1

\* Math.floor(256 ** bytesNeeded / range) * range - 1
maxValidValue(range) ==
    (Power(ByteValues, bytesNeeded(range)) \div range) * range - 1

RECURSIVE reduceBytes(_, _)
\* randomBytes.reduce((sum, byte, index) => sum + byte * (256 ** index), 0),
\* from index (0-based) on.
reduceBytes(randomBytes, index) ==
    IF index >= Len(randomBytes) THEN 0
    ELSE randomBytes[index + 1] * Power(ByteValues, index)
         + reduceBytes(randomBytes, index + 1)

\* One iteration of the do-while loop of getSecureRandomInt(min, max), for the
\* bytes crypto.getRandomValues filled in: the value read, whether the loop
\* goes round again, and the value returned when it does not.
getSecureRandomInt(min, max, randomBytes) ==
    LET range == max - min + 1
        randomValue == reduceBytes(randomBytes, 0)
    IN  [randomValue |-> randomValue,
         again |-> randomValue > maxValidValue(range),
         result |-> min + (randomValue % range)]

\* new Uint8Array(n) filled from the byte values in S.
ByteArrays(n, S) == [1..n -> S]

(***************************************************************************)
(* Component generators                                                    *)
(***************************************************************************)
\* const chars = 'ABCDEFGHIJKLMNOPQRSTUVWXYZ0123456789'
AlphanumericChars == UpperChars \o DigitChars

\* The character one loop iteration of generateRandomNumericString
\* ("numeric") or generateRandomAlphanumericString ("alphanumeric") appends
\* for the integer drawn.
randomChar(kind, drawn) ==
    IF kind = "numeric" THEN numberToString(drawn)
    ELSE <<AlphanumericChars[drawn + 1]>>

\* The inclusive maximum each generator passes to getSecureRandomInt.
randomMax(kind) ==
    IF kind = "numeric" THEN 9 ELSE Len(AlphanumericChars) - 1

Run(kind, length) == [kind |-> kind, length |-> length]

\* accountRuns with the French key run one digit too long.
accountRunsLongKey(countryCode) ==
    IF countryCode = <<"F", "R">>
    THEN <<Run("alphanumeric", 11), Run("numeric", 3)>>
    ELSE IF countryCode = <<"I", "T">> \/ countryCode = <<"C", "H">>
    THEN <<Run("alphanumeric", 12)>>
    ELSE <<Run("numeric", countries[countryCode].accountNumberLength)>>

\* generateAccountNumber: the random strings it concatenates, per country.
accountRuns(countryCode) ==
    IF countryCode = <<"F", "R">>
    THEN <<Run("alphanumeric", 11), Run("numeric", 2)>>
    ELSE IF countryCode = <<"I", "T">> \/ countryCode = <<"C", "H">>
    THEN <<Run("alphanumeric", 12)>>
    ELSE <<Run("numeric", countries[countryCode].accountNumberLength)>>

RECURSIVE runsLength(_)
runsLength(runs) ==
    IF runs = <<>> THEN 0
    ELSE (IF Head(runs).length > 0 THEN Head(runs).length ELSE 0)
         + runsLength(Tail(runs))

RECURSIVE runKindAt(_, _)
\* The kind of the run that produces the character at 0-based position p.
runKindAt(runs, p) ==
    IF p < Head(runs).length THEN Head(runs).kind
    ELSE runKindAt(Tail(runs), p - Head(runs).length)

(***************************************************************************)
(* Checksum engine                                                         *)
(***************************************************************************)
Thrown(error) == [ok |-> FALSE, value |-> <<>>, error |-> error]

Returned(value) == [ok |-> TRUE, value |-> value, error |-> NoError]

\* charToNumber with the letter offset off by one (A = 11 ... Z = 36).
charToNumberOffByOne(char) ==
    LET code == charCodeAt(char)
    IN  IF code >= 48 /\ code <= 57 THEN Returned(<<char>>)
        ELSE IF code >= 65 /\ code <= 90 THEN Returned(numberToString(code - 54))
        ELSE Thrown(IBANGenerationError(
                 Message("Invalid character '${char}' in IBAN calculation",
                         <<char>>, <<>>, ""),
                 <<>>, "charToNumber"))

\* charToNumber with the letters counted from 0 (A = 0 ... Z = 25).
charToNumberFromZero(char) ==
    LET code == charCodeAt(char)
    IN  IF code >= 48 /\ code <= 57 THEN Returned(<<char>>)
        ELSE IF code >= 65 /\ code <= 90 THEN Returned(numberToString(code - 65))
        ELSE Thrown(IBANGenerationError(
                 Message("Invalid character '${char}' in IBAN calculation",
                         <<char>>, <<>>, ""),
                 <<>>, "charToNumber"))

\* charToNumber(char): digits stay, A-Z become 10-35, anything else throws.
charToNumber(char) ==
    LET code == charCodeAt(char)
    IN  IF code >= 48 /\ code <= 57 THEN Returned(<<char>>)
        ELSE IF code >= 65 /\ code <= 90 THEN Returned(numberToString(code - 55))
        ELSE Thrown(IBANGenerationError(
                 Message("Invalid character '${char}' in IBAN calculation",
                         <<char>>, <<>>, ""),
                 <<>>, "charToNumber"))

RECURSIVE transliterateFrom(_, _)
\* The for-of loop of calculateCheckDigits from the characters still to read:
\* numericString += charToNumber(char.toUpperCase()), or the error the first
\* invalid character throws.
transliterateFrom(chars, numericString) ==
    IF chars = <<>> THEN Returned(numericString)
    ELSE LET digits == charToNumber(toUpperCaseChar(Head(chars)))
         IN  IF ~digits.ok THEN digits
             ELSE transliterateFrom(Tail(chars), numericString \o digits.value)

\* The loop from let numericString = ''.
transliterate(rearranged) == transliterateFrom(rearranged, <<>>)

RECURSIVE bigIntModFixedWidth(_, _, _)
\* The remainder of the numeral parsed into a 32-bit integer: the value
\* wraps around before the remainder is taken.
bigIntModFixedWidth(numericString, modulus, acc) ==
    IF numericString = <<>> THEN acc % modulus
    ELSE bigIntModFixedWidth(Tail(numericString), modulus,
                             (acc * 10 + (charCodeAt(Head(numericString)) - 48)) % 65536)

RECURSIVE bigIntMod(_, _, _)
\* BigInt(numericString) % BigInt(modulus): the remainder of the decimal
\* numeral, by long division from its first digit (acc is the remainder of
\* the digits read so far).
bigIntMod(numericString, modulus, acc) ==
    IF numericString = <<>> THEN acc
    ELSE bigIntMod(Tail(numericString), modulus,
                   (acc * 10 + (charCodeAt(Head(numericString)) - 48)) % modulus)

\* calculateCheckDigits without the padStart of step 5.
calculateCheckDigitsNoPad(countryCode, bankCode, accountNumber) ==
    LET rearranged == bankCode \o accountNumber \o countryCode \o <<"0", "0">>
        numericString == transliterate(rearranged)
    IN  IF ~numericString.ok
        THEN Thrown(IBANGenerationError(
                 Message("Failed to calculate check digits: ${error.message}",
                         <<>>, <<>>, numericString.error.message.template),
                 <<countryCode>>, "calculateCheckDigits"))
        ELSE Returned(numberToString(98 - bigIntMod(numericString.value, 97, 0)))

\* calculateCheckDigits(countryCode, bankCode, accountNumber). The result of
\* the loop is bound as an element of a singleton set, so that it is
\* evaluated once wherever the operator is evaluated.
calculateCheckDigits(countryCode, bankCode, accountNumber) ==
    LET rearranged == bankCode \o accountNumber \o countryCode \o <<"0", "0">>
    IN  CHOOSE result \in
            {IF ~numericString.ok
             THEN Thrown(IBANGenerationError(
                      Message("Failed to calculate check digits: ${error.message}",
                              <<>>, <<>>, numericString.error.message.template),
                      <<countryCode>>, "calculateCheckDigits"))
             ELSE LET remainder == bigIntMod(numericString.value, 97, 0)
                      checkDigits == 98 - remainder
                  IN  Returned(padStart(numberToString(checkDigits), 2, "0"))
               : numericString \in {transliterate(rearranged)}} : TRUE

\* validateGeneratedIBAN(iban, countryCode): NoError when it returns, the
\* error it throws otherwise.
validateGeneratedIBAN(iban, countryCode) ==
    LET config == countries[countryCode]
        checkDigits == substring(iban, 2, 4)
    IN  IF Len(iban) # config.length
        THEN IBANGenerationError(
                 Message("Generated IBAN has incorrect length. Expected ${config.length}, got ${iban.length}",
                         <<>>, <<>>, ""),
                 <<countryCode>>, "validateGeneratedIBAN")
        ELSE IF ~startsWith(iban, countryCode)
        THEN IBANGenerationError(
                 Message("Generated IBAN does not start with country code ${countryCode}",
                         countryCode, <<>>, ""),
                 <<countryCode>>, "validateGeneratedIBAN")
        ELSE IF ~(Len(checkDigits) = 2 /\ \A i \in 1..2 : IsDigitChar(checkDigits[i]))
        THEN IBANGenerationError(
                 Message("Invalid check digits: ${checkDigits}", <<>>, <<>>, ""),
                 <<countryCode>>, "validateGeneratedIBAN")
        ELSE NoError

(***************************************************************************)
(* generateIBAN, one call                                                  *)
(***************************************************************************)
\* The byte values crypto.getRandomValues returns in a generateIBAN call: 0
\* and 25 are accepted for every range used (digits 0 and 5, letters A and Z,
\* sample indexes 0 and 1); 252 is rejected for the ranges 10 and 36 and
\* accepted for the range 4 (sample index 0).
EntropyBytes == {0, 25, 252}

\* The frame of one generateIBAN(countryCode) call: the argument, the locals,
\* the outcome, and what the call has touched so far.
NewCall(countryCode) ==
    [countryCode |-> countryCode,
     normalizedCountryCode |-> <<>>,
     pc |-> "entry",
     bankCode |-> <<>>,
     accountNumber |-> <<>>,
     checkDigits |-> <<>>,
     iban |-> <<>>,
     error |-> NoError,
     entropyRead |-> FALSE,
     randomInts |-> 0,
     checksumCalls |-> 0]

\* The call ends by throwing error: the locals go out of scope.
Throw(f, error) ==
    [f EXCEPT !.pc = "thrown", !.error = error, !.bankCode = <<>>,
              !.accountNumber = <<>>, !.checkDigits = <<>>]

\* The catch block of generateIBAN: an IBANGenerationError is rethrown, any
\* other error is wrapped with the normalized country code.
generateIBANCatch(f, error) ==
    Throw(f, IF error.name = "IBANGenerationError" THEN error
             ELSE IBANGenerationError(
                      Message("Unexpected error during IBAN generation: ${error.message}",
                              <<>>, <<>>, error.message.template),
                      <<f.normalizedCountryCode>>, "generateIBAN"))

\* normalize without the trim.
normalizeNoTrim(chars) == toUpperCase(chars)

\* const normalizedCountryCode = countryCode.toUpperCase().trim()
normalize(chars) == trim(toUpperCase(chars))

\* Lines 353-354, before the try block: normalization and input validation.
\* A value without a toUpperCase method makes line 353 throw a TypeError.
enter(f) ==
    IF f.countryCode.type # "string"
    THEN Throw(f, ForeignError("TypeError",
                               "countryCode.toUpperCase is not a function",
                               "generateIBAN"))
    ELSE LET normalizedCountryCode == normalize(f.countryCode.chars)
             g == [f EXCEPT !.normalizedCountryCode = normalizedCountryCode]
             error == validateCountryCode(normalizedCountryCode)
         IN  IF error.name # "none" THEN Throw(g, error)
             ELSE [g EXCEPT !.pc = "generateBankCode"]

\* The range generateBankCode draws its index from.
bankCodeMax(f) == Len(countries[f.normalizedCountryCode].sampleBankCodes) - 1

\* Where the call goes once accountNumber has n characters.
afterAccountChar(countryCode, n) ==
    IF n >= runsLength(accountRuns(countryCode)) THEN "calculateCheckDigits"
    ELSE "generateAccountNumber"

\* generateBankCode, one iteration of the loop of its getSecureRandomInt call
\* (every sample pool of the registry is non-empty, so the format-based
\* fallback below line 212 is never reached). A rejected value is dead once
\* the loop condition has read it: the call is back at the head of the loop.
generateBankCode(f, randomBytes) ==
    LET sampleCodes == countries[f.normalizedCountryCode].sampleBankCodes
        draw == getSecureRandomInt(0, Len(sampleCodes) - 1, randomBytes)
    IN  IF draw.again
        THEN [f EXCEPT !.entropyRead = TRUE]
        ELSE [f EXCEPT !.bankCode = sampleCodes[draw.result + 1],
                       !.entropyRead = TRUE,
                       !.randomInts = @ + 1,
                       !.pc = afterAccountChar(f.normalizedCountryCode, 0)]

\* The kind of random string that produces the next character of
\* accountNumber.
accountKind(f) ==
    runKindAt(accountRuns(f.normalizedCountryCode), Len(f.accountNumber))

\* generateAccountNumber, one iteration of the loop of the getSecureRandomInt
\* call that draws its next character.
generateAccountNumber(f, randomBytes) ==
    LET kind == accountKind(f)
        draw == getSecureRandomInt(0, randomMax(kind), randomBytes)
        accountNumber == f.accountNumber \o randomChar(kind, draw.result)
    IN  IF draw.again
        THEN [f EXCEPT !.entropyRead = TRUE]
        ELSE [f EXCEPT !.accountNumber = accountNumber,
                       !.entropyRead = TRUE,
                       !.randomInts = @ + 1,
                       !.pc = afterAccountChar(f.normalizedCountryCode,
                                               Len(accountNumber))]

\* crypto.getRandomValues throws: the error reaches the catch block.
entropyFailure(f) ==
    generateIBANCatch(f, ForeignError("Error", "crypto.getRandomValues failed",
                                      "getSecureRandomInt"))

\* Line 362.
checksum(f) ==
    LET r == calculateCheckDigits(f.normalizedCountryCode, f.bankCode,
                                  f.accountNumber)
        g == [f EXCEPT !.checksumCalls = @ + 1]
    IN  IF ~r.ok THEN generateIBANCatch(g, r.error)
        ELSE [g EXCEPT !.checkDigits = r.value, !.pc = "assemble"]

\* `${normalizedCountryCode}${checkDigits}${bankCode}${accountNumber}`
assembleIBAN(normalizedCountryCode, checkDigits, bankCode, accountNumber) ==
    normalizedCountryCode \o checkDigits \o bankCode \o accountNumber

\* Lines 365-370: assembly, self-verification, return.
assemble(f) ==
    LET iban == assembleIBAN(f.normalizedCountryCode, f.checkDigits,
                             f.bankCode, f.accountNumber)
        error == validateGeneratedIBAN(iban, f.normalizedCountryCode)
    IN  IF error.name # "none" THEN generateIBANCatch(f, error)
        ELSE [f EXCEPT !.iban = iban, !.pc = "returned", !.bankCode = <<>>,
                       !.accountNumber = <<>>, !.checkDigits = <<>>]

\* The second call is given the bytes the first one reads, and runs the step
\* the first one runs whenever it is at the same place.
Enter ==
    /\ call.pc = "entry"
    /\ call' = enter(call)
    /\ twin' = IF twin.pc = "entry" THEN enter(twin) ELSE twin
    /\ UNCHANGED <<rnd, probe, popup>>

GenerateBankCode ==
    /\ call.pc = "generateBankCode"
    /\ \E randomBytes \in ByteArrays(bytesNeeded(bankCodeMax(call) + 1), EntropyBytes) :
          /\ call' = generateBankCode(call, randomBytes)
          /\ twin' = IF twin.pc = "generateBankCode"
                     THEN generateBankCode(twin, randomBytes) ELSE twin
    /\ UNCHANGED <<rnd, probe, popup>>

GenerateAccountNumber ==
    /\ call.pc = "generateAccountNumber"
    /\ \E randomBytes \in ByteArrays(bytesNeeded(randomMax(accountKind(call)) + 1),
                                     EntropyBytes) :
          /\ call' = generateAccountNumber(call, randomBytes)
          /\ twin' = IF twin.pc = "generateAccountNumber"
                     THEN generateAccountNumber(twin, randomBytes) ELSE twin
    /\ UNCHANGED <<rnd, probe, popup>>

EntropyFailure ==
    /\ call.pc \in {"generateBankCode", "generateAccountNumber"}
    /\ call' = entropyFailure(call)
    /\ twin' = IF twin.pc = call.pc THEN entropyFailure(twin) ELSE twin
    /\ UNCHANGED <<rnd, probe, popup>>

CalculateCheckDigits ==
    /\ call.pc = "calculateCheckDigits"
    /\ call' = checksum(call)
    /\ twin' = IF twin.pc = "calculateCheckDigits" THEN checksum(twin) ELSE twin
    /\ UNCHANGED <<rnd, probe, popup>>

Assemble ==
    /\ call.pc = "assemble"
    /\ call' = assemble(call)
    /\ twin' = IF twin.pc = "assemble" THEN assemble(twin) ELSE twin
    /\ UNCHANGED <<rnd, probe, popup>>

(***************************************************************************)
(* Inputs                                                                  *)
(***************************************************************************)
\* Codes the registry does not hold.
UnsupportedCodes == { <<"Z", "Z">>, <<"X">>, <<"N", "L", "X">>, <<"N", "-", "L">> }

\* Spellings of code that differ from it by letter case and by leading or
\* trailing white space only.
Variants(code) ==
    {code,
     toLowerCase(code),
     <<" ">> \o toLowerCase(code) \o <<" ">>,
     <<"\t">> \o code \o <<"\n", " ">>}

\* Supported codes that are also called in every spelling.
SpelledCodes == { <<"N", "L">>, <<"G", "B">>, <<"B", "E">> }

\* The calls made: (argument of the call, argument of the second call, and
\* whether there is a second call).
InputPairs ==
    {<<JSString(c), JSString(c), FALSE>> : c \in Range(ObjectKeys)}
    \cup UNION {{<<JSString(s), JSString(c), TRUE>> : s \in Variants(c)} :
                   c \in SpelledCodes \cup UnsupportedCodes}
    \cup {<<JSString(s), JSString(<<>>), TRUE>> : s \in {<<>>, <<" ">>, <<" ", "\t">>}}
    \cup {<<JSUndefined, JSUndefined, TRUE>>, <<JSNumber, JSNumber, TRUE>>}

\* The value of randomValue and result before they are assigned.
NoValue == -1

(***************************************************************************)
(* getSecureRandomInt, one call                                            *)
(***************************************************************************)
\* Largest minimum, and largest small range, a call is made with.
MaxMin == 1

MaxRange == 12

\* The ranges (max - min + 1) of the calls: the small ones, the ranges the
\* generators use, and the ranges at the edge of one byte.
Ranges ==
    (1..MaxRange)
    \cup {Len(UpperChars), Len(AlphanumericChars)}
    \cup {ByteValues - 1, ByteValues, ByteValues + 1}

\* The (min, max) arguments: every range from every minimum, and calls with
\* min > max.
Requests ==
    {<<min, min + range - 1>> : min \in 0..MaxMin, range \in Ranges}
    \cup {<<min + 1, min>> : min \in 1..(MaxMin + 1)}

RndIdle == [min |-> 0, max |-> 0, randomValue |-> NoValue, result |-> NoValue,
            pc |-> "idle"]

\* Lines 151-157: the guard, and the constants of the loop.
RndStart ==
    /\ rnd.pc = "entry"
    /\ rnd' = [rnd EXCEPT !.pc = IF rnd.min > rnd.max THEN "thrown" ELSE "loop"]
    /\ UNCHANGED <<call, twin, probe, popup>>

\* Lines 160-165: one iteration of the loop, and the return when it ends.
RndDraw ==
    /\ rnd.pc = "loop"
    /\ \E randomBytes \in ByteArrays(bytesNeeded(rnd.max - rnd.min + 1),
                                     0..(ByteValues - 1)) :
          LET draw == getSecureRandomInt(rnd.min, rnd.max, randomBytes)
          IN  rnd' = IF draw.again
                     THEN [rnd EXCEPT !.randomValue = draw.randomValue]
                     ELSE [rnd EXCEPT !.randomValue = draw.randomValue,
                                      !.result = draw.result,
                                      !.pc = "returned"]
    /\ UNCHANGED <<call, twin, probe, popup>>

(***************************************************************************)
(* calculateCheckDigits and validateGeneratedIBAN on probes                *)
(***************************************************************************)
\* The account number of the reference IBAN NL91 ABNA 0417 1643 00.
ReferenceAccount == <<"0", "4", "1", "7", "1", "6", "4", "3", "0", "0">>

\* Largest multiplier of the digit patterns the probe account numbers use.
MaxPattern == 2

\* An account number of the given length whose digit i is i * k mod 10.
PatternAccount(length, k) == [i \in 1..length |-> DigitChars[((i * k) % 10) + 1]]

\* Characters put in the first place of a probe account number.
ProbeChars == {"A", "Z", "a", "z", "-", " "}

ProbeAccounts(countryCode) ==
    LET length == countries[countryCode].accountNumberLength
        patterns == {PatternAccount(length, k) : k \in 0..MaxPattern}
    IN  patterns
        \cup {[p EXCEPT ![1] = ch] : p \in patterns, ch \in ProbeChars}
        \cup (IF length = Len(ReferenceAccount) THEN {ReferenceAccount} ELSE {})

\* Check digits a candidate IBAN is assembled with.
ProbeCheckDigits == { <<"0", "0">>, <<"7", "7">>, <<"9", "1">>, <<"9">>, <<"A", "1">> }

ProbeIdle == [countryCode |-> <<>>, bankCode |-> <<>>, accountNumber |-> <<>>,
              checkDigits |-> <<>>, pc |-> "idle", out |-> Returned(<<>>)]

\* calculateCheckDigits applied to the probe.
ProbeCalculate ==
    /\ probe.pc = "ready"
    /\ probe' = [probe EXCEPT
           !.out = calculateCheckDigits(probe.countryCode, probe.bankCode,
                                        probe.accountNumber),
           !.pc = "calculated"]
    /\ UNCHANGED <<call, twin, rnd, popup>>

\* validateGeneratedIBAN applied to the candidate assembled from the probe.
ProbeValidate ==
    /\ probe.pc = "ready"
    /\ LET iban == assembleIBAN(probe.countryCode, probe.checkDigits,
                                probe.bankCode, probe.accountNumber)
           error == validateGeneratedIBAN(iban, probe.countryCode)
       IN  probe' = [probe EXCEPT
               !.out = IF error.name = "none" THEN Returned(iban) ELSE Thrown(error),
               !.pc = "validated"]
    /\ UNCHANGED <<call, twin, rnd, popup>>

(***************************************************************************)
(* The popup                                                               *)
(***************************************************************************)
\* One iteration of the loop the generateIBAN call of frame f is in, with
\* crypto.getRandomValues returning byte, or throwing when byte is NoValue.
drawWith(f, byte) ==
    IF byte = NoValue THEN entropyFailure(f)
    ELSE IF f.pc = "generateBankCode"
    THEN generateBankCode(f, [i \in 1..bytesNeeded(bankCodeMax(f) + 1) |-> byte])
    ELSE generateAccountNumber(
             f, [i \in 1..bytesNeeded(randomMax(accountKind(f)) + 1) |-> byte])

RECURSIVE generationFrom(_, _)
\* Lines 358-359 from the frame f: the frame when the bank code and the
\* account number are generated, or the call has thrown. Each frame is
\* bound as the element of a singleton set, so that it is evaluated once.
generationFrom(f, byte) ==
    IF f.pc \notin {"generateBankCode", "generateAccountNumber"} THEN f
    ELSE CHOOSE end \in {generationFrom(g, byte) : g \in {drawWith(f, byte)}} : TRUE

\* generateIBAN(countryCode): the frame of the call when it has returned or
\* thrown.
generateIBAN(countryCode, byte) ==
    CHOOSE end \in
        {IF generated.pc # "calculateCheckDigits" THEN generated
         ELSE CHOOSE assembled \in
                 {IF checked.pc # "assemble" THEN checked ELSE assemble(checked)
                    : checked \in {checksum(generated)}} : TRUE
           : generated \in {generationFrom(enter(NewCall(JSString(countryCode))), byte)}} :
        TRUE

\* The useState initial values, with the clipboard writes and the reset
\* timers that are pending.
NewPopup ==
    [selectedCountry |-> <<"N", "L">>,
     generatedIBAN   |-> <<>>,
     error           |-> <<>>,
     isGenerating    |-> FALSE,
     copySuccess     |-> FALSE,
     clipboardWrites |-> 0,
     timers          |-> 0]

\* The options of the select that are chosen.
PopupCountries == { <<"N", "L">>, <<"F", "R">>, <<"G", "B">> }

\* What crypto.getRandomValues does during a click on Generate: one of two
\* bytes every loop accepts, or it throws.
PopupEntropy == {0, 25, NoValue}

\* Clipboard writes and reset timers pending at once.
MaxPending == 2

\* handleGenerate: it awaits nothing, so its state updates are one render.
handleGenerate(p, byte) ==
    LET f == generateIBAN(p.selectedCountry, byte)
        q == [p EXCEPT !.error = <<>>, !.copySuccess = FALSE]
    IN  IF f.pc = "returned"
        THEN [q EXCEPT !.generatedIBAN = f.iban, !.isGenerating = FALSE]
        ELSE [q EXCEPT !.error =
                           IF f.error.name = "IBANGenerationError"
                           THEN <<"Error: ", f.error.message.template>>
                           ELSE <<"An unexpected error occurred while generating IBAN">>,
                       !.generatedIBAN = <<>>,
                       !.isGenerating = FALSE]

\* handleCountryChange
handleCountryChange(p, value) ==
    [p EXCEPT !.selectedCountry = value, !.generatedIBAN = <<>>,
              !.error = <<>>, !.copySuccess = FALSE]

\* A click on Generate (the button is disabled while isGenerating).
HandleGenerate ==
    /\ ~popup.isGenerating
    /\ \E byte \in PopupEntropy : popup' = handleGenerate(popup, byte)
    /\ UNCHANGED <<call, twin, rnd, probe>>

\* A click on Copy, up to the await: the button is rendered with a
\* non-empty generatedIBAN only, and navigator.clipboard.writeText starts.
HandleCopy ==
    /\ popup.generatedIBAN # <<>>
    /\ ~popup.isGenerating
    /\ popup.clipboardWrites + popup.timers < MaxPending
    /\ popup' = [popup EXCEPT !.clipboardWrites = @ + 1]
    /\ UNCHANGED <<call, twin, rnd, probe>>

\* The write is fulfilled: handleCopy resumes after the await.
WriteTextResolves ==
    /\ popup.clipboardWrites > 0
    /\ popup' = [popup EXCEPT !.clipboardWrites = @ - 1,
                              !.copySuccess = TRUE,
                              !.timers = @ + 1]
    /\ UNCHANGED <<call, twin, rnd, probe>>

\* The write is rejected: the catch block of handleCopy.
WriteTextRejects ==
    /\ popup.clipboardWrites > 0
    /\ popup' = [popup EXCEPT !.clipboardWrites = @ - 1,
                              !.error = <<"Failed to copy IBAN to clipboard">>]
    /\ UNCHANGED <<call, twin, rnd, probe>>

\* The callback of setTimeout(..., 2000).
TimerFires ==
    /\ popup.timers > 0
    /\ popup' = [popup EXCEPT !.timers = @ - 1, !.copySuccess = FALSE]
    /\ UNCHANGED <<call, twin, rnd, probe>>

\* Another option of the select is chosen (it is disabled while
\* isGenerating).
HandleCountryChange ==
    /\ ~popup.isGenerating
    /\ \E value \in PopupCountries \ {popup.selectedCountry} :
          popup' = handleCountryChange(popup, value)
    /\ UNCHANGED <<call, twin, rnd, probe>>

(***************************************************************************)
(* Specifications                                                          *)
(***************************************************************************)
CallIdle == NewCall(JSString(<<>>))

Init ==
    /\ \E pair \in InputPairs :
          /\ call = NewCall(pair[1])
          /\ twin = IF pair[3] THEN NewCall(pair[2])
                    ELSE [NewCall(pair[2]) EXCEPT !.pc = "idle"]
    /\ rnd = RndIdle
    /\ probe = ProbeIdle
    /\ popup = NewPopup

Next ==
    \/ Enter
    \/ GenerateBankCode
    \/ GenerateAccountNumber
    \/ EntropyFailure
    \/ CalculateCheckDigits
    \/ Assemble

Spec == Init /\ [][Next]_vars

InitRandom ==
    /\ \E request \in Requests :
          rnd = [RndIdle EXCEPT !.min = request[1], !.max = request[2],
                                !.pc = "entry"]
    /\ call = [CallIdle EXCEPT !.pc = "idle"]
    /\ twin = [CallIdle EXCEPT !.pc = "idle"]
    /\ probe = ProbeIdle
    /\ popup = NewPopup

NextRandom ==
    \/ RndStart
    \/ RndDraw

SpecRandom == InitRandom /\ [][NextRandom]_vars

InitProbe ==
    /\ \E countryCode \in Range(ObjectKeys) :
          \E bankCode \in Range(countries[countryCode].sampleBankCodes) :
             \E accountNumber \in ProbeAccounts(countryCode) :
                \E checkDigits \in ProbeCheckDigits :
                   probe = [ProbeIdle EXCEPT !.countryCode = countryCode,
                                             !.bankCode = bankCode,
                                             !.accountNumber = accountNumber,
                                             !.checkDigits = checkDigits,
                                             !.pc = "ready"]
    /\ call = [CallIdle EXCEPT !.pc = "idle"]
    /\ twin = [CallIdle EXCEPT !.pc = "idle"]
    /\ rnd = RndIdle
    /\ popup = NewPopup

NextProbe ==
    \/ ProbeCalculate
    \/ ProbeValidate

SpecProbe == InitProbe /\ [][NextProbe]_vars

InitPopup ==
    /\ popup = NewPopup
    /\ call = [CallIdle EXCEPT !.pc = "idle"]
    /\ twin = [CallIdle EXCEPT !.pc = "idle"]
    /\ rnd = RndIdle
    /\ probe = ProbeIdle

NextPopup ==
    \/ HandleGenerate
    \/ HandleCopy
    \/ WriteTextResolves
    \/ WriteTextRejects
    \/ TimerFires
    \/ HandleCountryChange

SpecPopup == InitPopup /\ [][NextPopup]_vars

(***************************************************************************)
(* validateIBAN, the companion operation of the specification (section 4.4 *)
(* and section 6): re-derive the check digits from the body of a candidate *)
(* and compare them with the embedded ones. The remainder is computed by   *)
(* the streaming reduction of section 9, one transliterated token at a     *)
(* time.                                                                   *)
(***************************************************************************)
\* Step 2 of section 4.4: a digit maps to itself, a letter X to
\* ord(X) - ord('A') + 10; -1 stands for any other character.
tokenValue(ch) ==
    IF ch \in DigitSet THEN IndexOf(ch, DigitChars) - 1
    ELSE IF ch \in UpperSet THEN IndexOf(ch, UpperChars) - 1 + 10
    ELSE -1

RECURSIVE streamMod97(_, _)
\* Steps 3 and 4: acc = (acc * 10 + digit) mod 97 over the decimal digits of
\* the tokens; a letter contributes its two digits at once.
streamMod97(probeString, acc) ==
    IF probeString = <<>> THEN acc
    ELSE LET v == tokenValue(Head(probeString))
         IN  streamMod97(Tail(probeString),
                         IF v < 10 THEN (acc * 10 + v) % 97
                         ELSE (acc * 100 + v) % 97)

validateIBAN(iban) ==
    LET countryCode == substring(iban, 0, 2)
        embedded == substring(iban, 2, 4)
        body == substring(iban, 4, Len(iban))
        probeString == body \o countryCode \o <<"0", "0">>
        derived == 98 - streamMod97(probeString, 0)
    IN  /\ Len(iban) > 4
        /\ \A i \in 1..Len(probeString) : tokenValue(probeString[i]) >= 0
        /\ embedded = <<DigitChars[(derived \div 10) + 1], DigitChars[(derived % 10) + 1]>>

(***************************************************************************)
(* Properties of generateIBAN                                              *)
(***************************************************************************)
\* The decimal value of a two-digit field.
FieldValue(field) == (charCodeAt(field[1]) - 48) * 10 + (charCodeAt(field[2]) - 48)

\* C1: every string generateIBAN returns is mod-97 valid: the check digits
\* re-derived from its body equal the two digits embedded at positions 2-3,
\* that is validateIBAN(generateIBAN(c)) is true.
RoundTripValidity ==
    call.pc = "returned" => validateIBAN(call.iban)

\* A French IBAN is returned whose account number holds the letters A and Z.
RoundTripWitness ==
    /\ call.pc = "returned"
    /\ call.normalizedCountryCode = <<"F", "R">>
    /\ {"A", "Z"} \subseteq Range(substring(call.iban, 14, 25))
    /\ validateIBAN(call.iban)

\* The registry is consistent: the field widths add up to the total length
\* and every sample bank code has the width of its field.
RegistryConsistent ==
    \A c \in DOMAIN countries :
        /\ 2 + 2 + countries[c].bankCodeLength + countries[c].accountNumberLength
              = countries[c].length
        /\ \A i \in 1..Len(countries[c].sampleBankCodes) :
              Len(countries[c].sampleBankCodes[i]) = countries[c].bankCodeLength

\* C2: the returned string has the registry's total length for its country;
\* the registry is consistent, the bank code picked has bankCodeLength
\* characters, and generateAccountNumber ends with exactly
\* accountNumberLength characters, never more on the way.
LengthInvariant ==
    /\ RegistryConsistent
    /\ call.pc = "returned" =>
          Len(call.iban) = countries[call.normalizedCountryCode].length
    /\ call.pc = "generateAccountNumber" =>
          /\ Len(call.bankCode) = countries[call.normalizedCountryCode].bankCodeLength
          /\ Len(call.accountNumber)
                < countries[call.normalizedCountryCode].accountNumberLength
    /\ call.pc \in {"calculateCheckDigits", "assemble"} =>
          /\ Len(call.bankCode) = countries[call.normalizedCountryCode].bankCodeLength
          /\ Len(call.accountNumber)
                = countries[call.normalizedCountryCode].accountNumberLength

\* A French IBAN of 27 characters is returned (11 alphanumeric characters and
\* 2 digits of account number).
LengthWitness ==
    /\ call.pc = "returned"
    /\ call.normalizedCountryCode = <<"F", "R">>
    /\ Len(call.iban) = 27

\* C3: the returned string starts with the normalized (upper-cased, trimmed)
\* code, its characters at positions 2-3 are two decimal digits of value
\* 02..98, the check-digit field is never one or three characters long, and
\* the self-verification never raises an error.
PrefixAndCheckField ==
    /\ call.pc = "returned" =>
          /\ startsWith(call.iban, trim(toUpperCase(call.countryCode.chars)))
          /\ Len(trim(toUpperCase(call.countryCode.chars))) = 2
          /\ \A i \in 3..4 : call.iban[i] \in DigitSet
          /\ FieldValue(substring(call.iban, 2, 4)) \in 2..98
    /\ call.pc = "assemble" => Len(call.checkDigits) = 2
    /\ call.pc = "thrown" => call.error.raisedBy # "validateGeneratedIBAN"

\* An IBAN is returned whose check digits are below 10: the padded case.
PrefixWitness ==
    /\ call.pc = "returned"
    /\ call.iban[3] = "0"
    /\ startsWith(call.iban, call.normalizedCountryCode)

\* The argument is a string whose trimmed, upper-cased form is not a key of
\* the registry.
UnsupportedInput ==
    /\ call.countryCode.type = "string"
    /\ trim(toUpperCase(call.countryCode.chars)) \notin DOMAIN countries

\* C5: for a string whose trimmed, upper-cased form is not a key of the
\* registry, the call ends with the error of the input validation and no
\* later step runs: no bank code, no account number, no read of the entropy
\* source, no getSecureRandomInt call, no calculateCheckDigits call.
UnsupportedFailsEarly ==
    UnsupportedInput =>
        /\ call.pc \in {"entry", "thrown"}
        /\ call.pc = "thrown" =>
              /\ call.error.name = "IBANGenerationError"
              /\ call.error.raisedBy = "validateCountryCode"
        /\ call.bankCode = <<>>
        /\ call.accountNumber = <<>>
        /\ call.iban = <<>>
        /\ ~call.entropyRead
        /\ call.randomInts = 0
        /\ call.checksumCalls = 0

\* generateIBAN("NLX") has failed.
UnsupportedWitness ==
    /\ UnsupportedInput
    /\ call.countryCode.chars = <<"N", "L", "X">>
    /\ call.pc = "thrown"
    /\ ~call.entropyRead

\* The message of the error lists every supported code.
EnumeratesCodes(error) ==
    \A i \in 1..Len(ObjectKeys) :
        \E j \in 1..Len(error.message.codes) : error.message.codes[j] = ObjectKeys[i]

\* C6 as stated: for every string, the empty and the white-space-only ones
\* included, whose normalized form is not a supported code, the message of
\* the error enumerates all supported codes.
UnsupportedMessageEnumerates ==
    (UnsupportedInput /\ call.pc = "thrown") => EnumeratesCodes(call.error)

\* C6 as amended: for every string whose normalized form is not empty and is
\* not a supported code, the message of the error enumerates all supported
\* codes; for the empty and the white-space-only string the message is
\* "Country code is required" and lists no code.
NonEmptyUnsupportedMessageEnumerates ==
    (UnsupportedInput /\ call.pc = "thrown") =>
        IF trim(toUpperCase(call.countryCode.chars)) = <<>>
        THEN /\ call.error.message.template = "Country code is required"
             /\ call.error.message.codes = <<>>
        ELSE EnumeratesCodes(call.error)

\* generateIBAN(" zz ") has failed with the message that lists the codes.
EnumeratesWitness ==
    /\ call.countryCode.chars = <<" ", "z", "z", " ">>
    /\ call.pc = "thrown"
    /\ EnumeratesCodes(call.error)

\* C7: a call whose argument differs from the code c by letter case and by
\* leading or trailing white space only is, given the same bytes, at every
\* step in the state of the call with argument c (same place, same locals,
\* same returned string, same error), and the string it returns starts with
\* the upper-case code.
NormalizationEquivalence ==
    /\ twin.pc # "idle" => call = [twin EXCEPT !.countryCode = call.countryCode]
    /\ (twin.pc # "idle" /\ call.pc = "returned") =>
          substring(call.iban, 0, 2) = twin.countryCode.chars

\* generateIBAN(" nl ") and generateIBAN("NL") have returned the same string.
NormalizationWitness ==
    /\ call.countryCode.chars = <<" ", "n", "l", " ">>
    /\ twin.countryCode.chars = <<"N", "L">>
    /\ call.pc = "returned"
    /\ twin.pc = "returned"
    /\ twin.iban = call.iban

\* C8: every failure that leaves generateIBAN is an IBANGenerationError, for
\* every argument and every internal failure, and a failure raised after the
\* country code was accepted carries that code.
OnlyDomainErrors ==
    call.pc = "thrown" =>
        /\ call.error.name = "IBANGenerationError"
        /\ call.normalizedCountryCode \in DOMAIN countries =>
              call.error.countryCode = <<call.normalizedCountryCode>>

(***************************************************************************)
(* Properties of getSecureRandomInt                                        *)
(***************************************************************************)
\* What the loop does with each raw value the bytes can hold, for the
\* arguments of the call.
RawDraws ==
    {getSecureRandomInt(rnd.min, rnd.max, randomBytes) :
        randomBytes \in ByteArrays(bytesNeeded(rnd.max - rnd.min + 1),
                                   0..(ByteValues - 1))}

\* Every result of [min, max] is returned for the same, positive, number of
\* raw values.
UniformOverResults ==
    LET accepted == {d \in RawDraws : ~d.again}
        count(r) == Cardinality({d \in accepted : d.result = r})
    IN  /\ count(rnd.min) > 0
        /\ \A r \in rnd.min..rnd.max : count(r) = count(rnd.min)
        /\ \A d \in accepted : d.result \in rnd.min..rnd.max

\* C4: for min <= max, getSecureRandomInt returns an integer of [min, max];
\* every result of [min, max] is produced by the same number of the raw
\* values 0..maxValidValue the loop accepts; every raw value above
\* maxValidValue is rejected and drawn again. Ranges 1 (no byte drawn) and
\* 256 are among the calls.
SecureRandomUnbiased ==
    LET range == rnd.max - rnd.min + 1
        limit == (Power(ByteValues, bytesNeeded(range)) \div range) * range - 1
    IN  /\ (rnd.pc = "loop" /\ rnd.randomValue = NoValue) => UniformOverResults
        /\ (rnd.pc = "loop" /\ rnd.randomValue # NoValue) => rnd.randomValue > limit
        /\ rnd.pc = "returned" =>
              /\ rnd.randomValue \in 0..limit
              /\ rnd.result \in rnd.min..rnd.max
              /\ rnd.result = rnd.min + (rnd.randomValue % range)

\* getSecureRandomInt(0, 9) has rejected the raw value 250 and is drawing
\* again.
SecureRandomWitness ==
    /\ rnd.min = 0
    /\ rnd.max = 9
    /\ rnd.pc = "loop"
    /\ rnd.randomValue = 250

(***************************************************************************)
(* Properties of the checksum engine and of the self-verification          *)
(***************************************************************************)
\* calculateCheckDigits("NL", "ABNA", "0417164300") has been evaluated.
ReferenceProbeCalculated ==
    /\ probe.pc = "calculated"
    /\ probe.countryCode = <<"N", "L">>
    /\ probe.bankCode = <<"A", "B", "N", "A">>
    /\ probe.accountNumber = ReferenceAccount

\* C9 as stated: calculateCheckDigits for "NL", "ABNA" and "0417164300"
\* returns "77".
ReferenceCheckDigitsAre77 ==
    ReferenceProbeCalculated =>
        (probe.out.ok /\ probe.out.value = <<"7", "7">>)

\* C9 as amended: calculateCheckDigits for "NL", "ABNA" and "0417164300"
\* returns "91" (the reference IBAN is NL91 ABNA 0417 1643 00).
ReferenceCheckDigitsAre91 ==
    ReferenceProbeCalculated =>
        (probe.out.ok /\ probe.out.value = <<"9", "1">>)

ReferenceWitness ==
    /\ ReferenceProbeCalculated
    /\ probe.out.ok
    /\ Len(probe.out.value) = 2

\* C10: the validation applied to the assembled string uses the mod-97
\* algorithm: a candidate that the validation lets through carries the
\* mod-97 check digits of its body.
ValidationUsesMod97 ==
    (probe.pc = "validated" /\ probe.out.ok) =>
        LET expected == calculateCheckDigits(probe.countryCode, probe.bankCode,
                                             probe.accountNumber)
        IN  expected.ok /\ probe.checkDigits = expected.value
(***************************************************************************)
(* Properties of the transliteration                                       *)
(***************************************************************************)
\* The probe string of the probe: bankCode, accountNumber, countryCode, "00".
ProbeString ==
    probe.bankCode \o probe.accountNumber \o probe.countryCode \o <<"0", "0">>

\* The digits and upper-case letters a transliteration accepts.
ValidChars == DigitSet \cup UpperSet

\* calculateCheckDigits has ended in the invalid-character error.
InvalidCharacterError ==
    /\ ~probe.out.ok
    /\ probe.out.error.name = "IBANGenerationError"
    /\ probe.out.error.message.inner
          = "Invalid character '${char}' in IBAN calculation"

\* Each digit maps to itself, A to 10 and Z to 35, each letter to 10 plus
\* its place in the alphabet.
TransliterationTable ==
    /\ \A i \in 1..Len(DigitChars) :
          charToNumber(DigitChars[i]) = Returned(<<DigitChars[i]>>)
    /\ charToNumber("A") = Returned(<<"1", "0">>)
    /\ charToNumber("Z") = Returned(<<"3", "5">>)
    /\ \A i \in 1..Len(UpperChars) :
          charToNumber(UpperChars[i]) = Returned(numberToString(9 + i))

\* C12 as stated: digits map to themselves, A to 10 and Z to 35, and for
\* every probe that holds a character outside [0-9A-Z], lower-case letters,
\* punctuation and white space included, calculateCheckDigits ends in the
\* invalid-character error.
InvalidCharacterAlwaysRejected ==
    /\ TransliterationTable
    /\ (probe.pc = "calculated" /\ ~(Range(ProbeString) \subseteq ValidChars))
          => InvalidCharacterError

\* C12 as amended: digits map to themselves, A to 10 and Z to 35; for every
\* probe that holds a character that is neither a digit nor a letter
\* (punctuation, white space) calculateCheckDigits ends in the
\* invalid-character error; a lower-case letter is upper-cased before the
\* transliteration, and the probe gets the check digits of its upper-case
\* form.
InvalidCharacterRejectedAfterUpperCase ==
    /\ TransliterationTable
    /\ probe.pc = "calculated" =>
          IF Range(toUpperCase(ProbeString)) \subseteq ValidChars
          THEN /\ probe.out.ok
               /\ probe.out = calculateCheckDigits(toUpperCase(probe.countryCode),
                                                   toUpperCase(probe.bankCode),
                                                   toUpperCase(probe.accountNumber))
               /\ Len(probe.out.value) = 2
          ELSE InvalidCharacterError

\* calculateCheckDigits has thrown for a probe whose account number starts
\* with "-".
InvalidCharacterWitness ==
    /\ probe.pc = "calculated"
    /\ probe.accountNumber[1] = "-"
    /\ InvalidCharacterError

(***************************************************************************)
(* generateBankCode over the whole byte space                              *)
(***************************************************************************)
\* generateBankCode(countryCode) is entered for a supported country, with its
\* getSecureRandomInt(0, sampleCodes.length - 1) call at the head of the loop.
InitBank ==
    /\ \E countryCode \in Range(ObjectKeys) :
          /\ call = enter(NewCall(JSString(countryCode)))
          /\ rnd = [RndIdle EXCEPT !.max = bankCodeMax(call), !.pc = "loop"]
    /\ twin = [CallIdle EXCEPT !.pc = "idle"]
    /\ probe = ProbeIdle
    /\ popup = NewPopup

\* One iteration of the loop for any byte the entropy source can return,
\* and the pick of line 209 when the loop ends.
BankDraw ==
    /\ call.pc = "generateBankCode"
    /\ rnd.pc = "loop"
    /\ \E randomBytes \in ByteArrays(bytesNeeded(bankCodeMax(call) + 1),
                                     0..(ByteValues - 1)) :
          LET draw == getSecureRandomInt(rnd.min, rnd.max, randomBytes)
          IN  /\ rnd' = IF draw.again
                        THEN [rnd EXCEPT !.randomValue = draw.randomValue]
                        ELSE [rnd EXCEPT !.randomValue = draw.randomValue,
                                         !.result = draw.result,
                                         !.pc = "returned"]
              /\ call' = generateBankCode(call, randomBytes)
    /\ UNCHANGED <<twin, probe, popup>>

NextBank == BankDraw

SpecBank == InitBank /\ [][NextBank]_vars

(***************************************************************************)
(* Properties of generateBankCode                                          *)
(***************************************************************************)
\* The number of raw values for which generateBankCode returns bankCode.
BankCodeDraws(bankCode) ==
    Cardinality({randomBytes \in ByteArrays(bytesNeeded(bankCodeMax(call) + 1),
                                            0..(ByteValues - 1)) :
                    LET f == generateBankCode(call, randomBytes)
                    IN  f.pc # "generateBankCode" /\ f.bankCode = bankCode})

\* C13: generateBankCode returns a member of the country's sample pool, and
\* the pick is uniform over the pool as a set: every distinct bank code of
\* the pool is returned for the same number of accepted raw values.
BankCodeUniformOverPool ==
    LET pool == Range(countries[call.normalizedCountryCode].sampleBankCodes)
    IN  /\ rnd.pc = "returned" => call.bankCode \in pool
        /\ call.pc = "generateBankCode" =>
              \A v \in pool : \A w \in pool : BankCodeDraws(v) = BankCodeDraws(w)

(***************************************************************************)
(* generateIBAN with an entropy source that works and is fair              *)
(***************************************************************************)
\* One byte the loops of getSecureRandomInt accept for every range they are
\* called with, and one they reject for the ranges 10 and 36.
FairEntropyBytes == {25, 252}

InitFair ==
    /\ \E input \in InputPairs : call = NewCall(input[1])
    /\ twin = [CallIdle EXCEPT !.pc = "idle"]
    /\ rnd = RndIdle
    /\ probe = ProbeIdle
    /\ popup = NewPopup

\* One iteration of the loop that draws the index of the bank code.
DrawBankCode ==
    /\ call.pc = "generateBankCode"
    /\ \E randomBytes \in ByteArrays(bytesNeeded(bankCodeMax(call) + 1),
                                     FairEntropyBytes) :
          call' = generateBankCode(call, randomBytes)
    /\ UNCHANGED <<twin, rnd, probe, popup>>

\* One iteration of the loop that draws the next character of accountNumber.
DrawAccountChar ==
    /\ call.pc = "generateAccountNumber"
    /\ \E randomBytes \in ByteArrays(bytesNeeded(randomMax(accountKind(call)) + 1),
                                     FairEntropyBytes) :
          call' = generateAccountNumber(call, randomBytes)
    /\ UNCHANGED <<twin, rnd, probe, popup>>

\* crypto.getRandomValues does not throw here.
NextFair ==
    \/ Enter
    \/ DrawBankCode
    \/ DrawAccountChar
    \/ CalculateCheckDigits
    \/ Assemble

\* The call is synchronous and runs to completion, so each step that can be
\* taken is taken; a rejected value leaves the call where it is, so the
\* steps of the two loops are the accepted values, which a fair source of
\* bytes eventually yields.
SpecFair ==
    /\ InitFair
    /\ [][NextFair]_vars
    /\ WF_vars(Enter)
    /\ WF_vars(DrawBankCode)
    /\ WF_vars(DrawAccountChar)
    /\ WF_vars(CalculateCheckDigits)
    /\ WF_vars(Assemble)

(***************************************************************************)
(* Termination                                                             *)
(***************************************************************************)
\* The ranges generateIBAN calls getSecureRandomInt with: the size of each
\* sample pool and of the alphabet of each run of an account number.
CalledRanges ==
    {Len(countries[c].sampleBankCodes) : c \in DOMAIN countries}
    \cup UNION {{randomMax(accountRuns(c)[i].kind) + 1 :
                    i \in 1..Len(accountRuns(c))} : c \in DOMAIN countries}

\* The number of raw values the loop of getSecureRandomInt accepts for range.
AcceptedCount(range) ==
    Cardinality({randomBytes \in ByteArrays(bytesNeeded(range), 0..(ByteValues - 1)) :
                    ~getSecureRandomInt(0, range - 1, randomBytes).again})

\* For every range called with, more than half of the raw values are
\* accepted: the rejection probability of a draw is below 1/2.
RejectionBelowOne ==
    \A range \in CalledRanges :
        /\ AcceptedCount(range) > 0
        /\ 2 * AcceptedCount(range) > Power(ByteValues, bytesNeeded(range))

\* The range of the getSecureRandomInt call the generateIBAN call is in.
CurrentRange ==
    IF call.pc = "generateBankCode" THEN bankCodeMax(call) + 1
    ELSE randomMax(accountKind(call)) + 1

\* generateIBAN has been called with a string that names a supported country.
SupportedCall ==
    /\ call.pc = "entry"
    /\ call.countryCode.type = "string"
    /\ trim(toUpperCase(call.countryCode.chars)) \in DOMAIN countries

\* C11: no operation blocks: for every range getSecureRandomInt is called
\* with more than half of the raw values are accepted, so with a fair
\* entropy source every generateIBAN call for a supported country
\* eventually returns, after one getSecureRandomInt call for the bank code
\* and one for each character of the account number.
GenerationTerminates ==
    /\ [](/\ RejectionBelowOne
          /\ call.pc \in {"generateBankCode", "generateAccountNumber"} =>
                /\ CurrentRange \in CalledRanges
                /\ \E b \in FairEntropyBytes : b <= maxValidValue(CurrentRange)
          /\ call.pc = "returned" =>
                call.randomInts
                   = 1 + countries[call.normalizedCountryCode].accountNumberLength)
    /\ SupportedCall ~> (call.pc = "returned")

\* A French call has returned after 14 getSecureRandomInt calls.
TerminationWitness ==
    /\ call.pc = "returned"
    /\ call.normalizedCountryCode = <<"F", "R">>
    /\ call.randomInts = 14
    /\ call.entropyRead

(***************************************************************************)
(* The copied indication                                                   *)
(***************************************************************************)
\* C14: under every interleaving of the generate click, a country change, a
\* copy click whose clipboard write completes later and the reset timer,
\* copySuccess is true only where generatedIBAN is non-empty, so 'IBAN copied
\* to clipboard!' is not shown once the result has been cleared.
CopiedOnlyWithResult ==
    popup.copySuccess => popup.generatedIBAN # <<>>

====
